---- MODULE Spec2Model ----
(***************************************************************************)
(* Model of ogdf::PoolMemoryAllocator (src/ogdf/basic/PoolMemoryAllocator   *)
(* .cpp), multi-threaded build (OGDF_MEMORY_POOL_NTS undefined), debug      *)
(* accounting (OGDF_DEBUG) included.                                        *)
(*                                                                         *)
(* Memory is a map from word addresses to the m_next link stored there.     *)
(* Free lists are intrusive chains through that map, exactly as in the      *)
(* code; the sequences used by the properties are obtained by walking the   *)
(* chains from their heads.                                                 *)
(***************************************************************************)
EXTENDS Integers, Sequences, FiniteSets, TLC

(* ---- bounds of the model ---- *)
MaxBlocks == 2
MaxChain == 2
MaxCount == 3
MaxAllocs == 6
FairBlocks == 1

(* ---- constants of ogdf/basic/memory.h, scaled down ---- *)
OGDF_SIZEOF_POINTER == 8
eMinBytes == 8
eTableSize == 17
eBlockSize == 40

NULL == 0
\* what a link reads as once the caller has stored its object in the slice
USED == -1
NoThread == 0
Threads == {1, 2}
Slots == 1..MaxBlocks
Classes == 1..(eTableSize - 1)
\* the sizes the clients request: the interleaved and the free-running
\* sequential client, and the scripted clients
Sizes == {12, 16}
AllSizes == {8, 12, 16}

BlockBase(b) == b * eBlockSize
BlockWords(b) ==
    {BlockBase(b) + OGDF_SIZEOF_POINTER * j :
        j \in 0..((eBlockSize \div OGDF_SIZEOF_POINTER) - 1)}
Addrs == UNION {BlockWords(b) : b \in Slots}
Ptr == Addrs \cup {NULL}
\* BlockChain::m_next sits behind m_fill[eBlockSize - sizeof(void*)]
BlockLink(base) == base + eBlockSize - OGDF_SIZEOF_POINTER

VARIABLES
    mem,          \* word address -> link stored there (MemElem::m_next, BlockChain::m_next)
    s_tp,         \* thread -> size class -> head of the thread-local free list
    s_pool,       \* size class -> [m_gp, m_size]
    s_blocks,     \* anchor of the block chain
    s_nettoAlloc, \* debug counter: words carved from blocks
    s_mutex,      \* thread inside the critical section, or NoThread
    pc,           \* thread -> position in the operation it executes
    loc,          \* thread -> locals of the operation it executes
    held,         \* thread -> set of <<address, size>> its caller holds (in use)
    malloced,     \* sequence of block base addresses obtained from malloc
    carved,       \* set of <<address, size>>: the slices carved from blocks so far
    freed,        \* sequence of block base addresses passed to free
    phase,        \* "run"; "cleaned" or "asserted" after cleanup; "defrag_asserted"
    hist          \* completed calls, recorded by the sequential clients

vars == <<mem, s_tp, s_pool, s_blocks, s_nettoAlloc, s_mutex, pc, loc, held,
          malloced, carved, freed, phase, hist>>

(* ------------------------------------------------------------------ *)
(* Pure helpers                                                        *)
(* ------------------------------------------------------------------ *)

max(a, b) == IF a >= b THEN a ELSE b

\* memory.h: nWords = (nBytes + OGDF_SIZEOF_POINTER - 1) / OGDF_SIZEOF_POINTER
wordsPerSlice(nBytes) ==
    (nBytes + OGDF_SIZEOF_POINTER - 1) \div OGDF_SIZEOF_POINTER

\* memory.h: (eBlockSize - OGDF_SIZEOF_POINTER) / (nWords * OGDF_SIZEOF_POINTER)
slicesPerBlock(nBytes) ==
    (eBlockSize - OGDF_SIZEOF_POINTER)
        \div (wordsPerSlice(nBytes) * OGDF_SIZEOF_POINTER)

\* The chain reachable from p through the links of m, as a sequence. The
\* fuel stops the walk of a cyclic chain, which then shows as a repetition.
RECURSIVE Walk(_, _, _)
Walk(m, p, fuel) ==
    IF p \notin Addrs \/ fuel = 0 THEN <<>>
    ELSE <<p>> \o Walk(m, m[p], fuel - 1)

Fuel == Cardinality(Addrs) + 1
Chain(m, p) == Walk(m, p, Fuel)

\* p advanced k times along m_next (for(i = 1; i < nSlices; ++i) p = p->m_next)
RECURSIVE Advance(_, _, _)
Advance(m, p, k) == IF k = 0 THEN p ELSE Advance(m, m[p], k - 1)

Range(q) == {q[i] : i \in 1..Len(q)}
NoDup(q) == \A i, j \in 1..Len(q) : i # j => q[i] # q[j]

RECURSIVE SumSeq(_)
SumSeq(q) == IF q = <<>> THEN 0 ELSE Head(q) + SumSeq(Tail(q))

RECURSIVE SumOver(_, _)
SumOver(S, f) ==
    IF S = {} THEN 0
    ELSE LET x == CHOOSE y \in S : TRUE IN f[x] + SumOver(S \ {x}, f)

\* makeSlices with while(--nSlices > 2): one slice short
RECURSIVE makeSlices_oneShort(_, _, _, _)
makeSlices_oneShort(m, pBlock, nWords, nSlices) ==
    LET nxt == pBlock + nWords * OGDF_SIZEOF_POINTER
        m1  == [m EXCEPT ![pBlock] = nxt]
    IN  IF nSlices - 1 > 2 THEN makeSlices_oneShort(m1, nxt, nWords, nSlices - 1)
        ELSE [m1 EXCEPT ![nxt] = NULL]

\* makeSlices: do { pBlock = pBlock->m_next = pBlock+nWords; } while(--nSlices > 1);
\*             pBlock->m_next = nullptr;
RECURSIVE makeSlices(_, _, _, _)
makeSlices(m, pBlock, nWords, nSlices) ==
    LET nxt == pBlock + nWords * OGDF_SIZEOF_POINTER
        m1  == [m EXCEPT ![pBlock] = nxt]
    IN  IF nSlices - 1 > 1 THEN makeSlices(m1, nxt, nWords, nSlices - 1)
        ELSE [m1 EXCEPT ![nxt] = NULL]

\* std::sort(a, a+n) on pointers: ascending by address
RECURSIVE InsertSorted(_, _)
InsertSorted(x, q) ==
    IF q = <<>> THEN <<x>>
    ELSE IF x <= Head(q) THEN <<x>> \o q
    ELSE <<Head(q)>> \o InsertSorted(x, Tail(q))

\* a sort that leaves the buffer as it was filled
sort_asFilled(q) == q

RECURSIVE sort(_)
sort(q) == IF q = <<>> THEN <<>> ELSE InsertSorted(Head(q), sort(Tail(q)))

\* a[i]->m_next = a[i+1] for i < n-1; a[n-1]->m_next = nullptr
RECURSIVE Relink(_, _)
Relink(m, a) ==
    IF Len(a) = 1 THEN [m EXCEPT ![a[1]] = NULL]
    ELSE Relink([m EXCEPT ![a[1]] = a[2]], Tail(a))

(* ------------------------------------------------------------------ *)
(* State                                                               *)
(* ------------------------------------------------------------------ *)

NoLoc == [nBytes |-> 0, p |-> NULL, pTail |-> NULL, n |-> 0, pOldHead |-> NULL]

Init ==
    /\ mem = [a \in Addrs |-> NULL]
    /\ s_tp = [t \in Threads |-> [c \in Classes |-> NULL]]
    /\ s_pool = [c \in Classes |-> [m_gp |-> NULL, m_size |-> 0]]
    /\ s_blocks = NULL
    /\ s_nettoAlloc = 0
    /\ s_mutex = NoThread
    /\ pc = [t \in Threads |-> "idle"]
    /\ loc = [t \in Threads |-> NoLoc]
    /\ held = [t \in Threads |-> {}]
    /\ malloced = <<>>
    /\ carved = {}
    /\ freed = <<>>
    /\ phase = "run"
    /\ hist = <<>>

ListOf(m, tp, t, c) == Chain(m, tp[t][c])
LocalList(t, c) == ListOf(mem, s_tp, t, c)
PoolList(m, pool, c) == Chain(m, pool[c].m_gp)
GlobalList(c) == PoolList(mem, s_pool, c)
\* the block chain, walked through BlockChain::m_next
BlockChainOf(m, anchor) ==
    Chain([a \in Addrs |-> IF BlockLink(a) \in Addrs THEN m[BlockLink(a)] ELSE NULL],
          anchor)
FreeSlots == {b \in Slots : \A i \in 1..Len(malloced) : malloced[i] # BlockBase(b)}

\* unguardedMemGlobalFreelist: bytesFree += pe.m_size * sz
unguardedMemGlobalFreelist(pool) ==
    SumOver(Classes, [sz \in Classes |-> pool[sz].m_size * sz])

\* the sum memoryInThreadFreeList computes: bytesFree += sz per element
ThreadBytes(m, tp, t) ==
    SumOver(Classes, [sz \in Classes |-> sz * Len(ListOf(m, tp, t, sz))])

\* A completed call as the sequential client records it, with what the
\* allocator looks like when the call returns.
Event(t, op, nBytes, arg, ret) ==
    [t |-> t, op |-> op, nBytes |-> nBytes, arg |-> arg, ret |-> ret,
     blocks |-> Len(malloced'),
     glob |-> unguardedMemGlobalFreelist(s_pool'),
     thr |-> ThreadBytes(mem', s_tp', t),
     gl |-> [c \in AllSizes |-> PoolList(mem', s_pool', c)],
     tl |-> [c \in AllSizes |-> ListOf(mem', s_tp', t, c)]]

LastN(q, k) == IF Len(q) <= k THEN q ELSE SubSeq(q, Len(q) - k + 1, Len(q))

\* rec = 0: nothing is recorded; rec = k > 0: hist keeps the last k calls.
Log(rec, e) == hist' = IF rec > 0 THEN LastN(Append(hist, e), rec) ELSE hist

Ready(t) == phase = "run" /\ pc[t] = "idle"

\* The caller receives p and stores its object there: from then on the
\* first word of the slice is the caller's data, not a link.
handOut(m, p) == [m EXCEPT ![p] = USED]

\* enterCS(): s_mutex.lock()
enterCS(t) == s_mutex = NoThread /\ s_mutex' = t
\* leaveCS(): s_mutex.unlock()
leaveCS(t) == s_mutex = t /\ s_mutex' = NoThread

(* ------------------------------------------------------------------ *)
(* allocate / deallocate / deallocateList                              *)
(* ------------------------------------------------------------------ *)

\* allocate without pFreeBytes = p->m_next
allocate_noAdvance(t, nBytes, rec) ==
    /\ Ready(t)
    /\ s_tp[t][nBytes] # NULL
    /\ LET p == s_tp[t][nBytes] IN
        /\ s_tp' = s_tp
        /\ mem' = [mem EXCEPT ![p] = NULL]
        /\ held' = [held EXCEPT ![t] = @ \cup {<<p, nBytes>>}]
        /\ UNCHANGED <<s_pool, s_blocks, s_nettoAlloc, s_mutex, pc, loc,
                       malloced, carved, freed, phase>>
        /\ Log(rec, Event(t, "allocate", nBytes, <<>>, p))

\* allocate, fast path: pFreeBytes != nullptr
allocate(t, nBytes, rec) ==
    /\ Ready(t)
    /\ s_tp[t][nBytes] # NULL
    /\ LET p == s_tp[t][nBytes] IN
        /\ s_tp' = [s_tp EXCEPT ![t][nBytes] = mem[p]]
        /\ mem' = handOut([mem EXCEPT ![p] = NULL], p)
        /\ held' = [held EXCEPT ![t] = @ \cup {<<p, nBytes>>}]
        /\ UNCHANGED <<s_pool, s_blocks, s_nettoAlloc, s_mutex, pc, loc,
                       malloced, carved, freed, phase>>
        /\ Log(rec, Event(t, "allocate", nBytes, <<>>, p))

\* allocate, slow path: pFreeBytes == nullptr; fillPool is entered and takes
\* the lock. The model acquires at most MaxBlocks blocks.
fillPool_enterCS(t, nBytes) ==
    /\ Ready(t)
    /\ s_tp[t][nBytes] = NULL
    /\ \/ FreeSlots # {}
       \/ s_pool[nBytes].m_size >= slicesPerBlock(max(nBytes, eMinBytes))
    /\ enterCS(t)
    /\ pc' = [pc EXCEPT ![t] = "fill_cs"]
    /\ loc' = [loc EXCEPT ![t] = [NoLoc EXCEPT !.nBytes = nBytes]]
    /\ UNCHANGED <<mem, s_tp, s_pool, s_blocks, s_nettoAlloc, held,
                   malloced, carved, freed, phase, hist>>

\* deallocate with s_tp indexed by the size rounded up to whole words
deallocate_roundedClass(t, nBytes, p, rec) ==
    /\ Ready(t)
    /\ <<p, nBytes>> \in held[t]
    /\ LET sz == wordsPerSlice(nBytes) * OGDF_SIZEOF_POINTER IN
        /\ mem' = [mem EXCEPT ![p] = s_tp[t][sz]]
        /\ s_tp' = [s_tp EXCEPT ![t][sz] = p]
    /\ held' = [held EXCEPT ![t] = @ \ {<<p, nBytes>>}]
    /\ UNCHANGED <<s_pool, s_blocks, s_nettoAlloc, s_mutex, pc, loc, malloced,
                   carved, freed, phase>>
    /\ Log(rec, Event(t, "deallocate", nBytes, <<p>>, NULL))

\* deallocate without MemElemPtr(p)->m_next = pFreeBytes
deallocate_noLink(t, nBytes, p, rec) ==
    /\ Ready(t)
    /\ <<p, nBytes>> \in held[t]
    /\ mem' = [mem EXCEPT ![p] = NULL]
    /\ s_tp' = [s_tp EXCEPT ![t][nBytes] = p]
    /\ held' = [held EXCEPT ![t] = @ \ {<<p, nBytes>>}]
    /\ UNCHANGED <<s_pool, s_blocks, s_nettoAlloc, s_mutex, pc, loc, malloced,
                   carved, freed, phase>>
    /\ Log(rec, Event(t, "deallocate", nBytes, <<p>>, NULL))

deallocate(t, nBytes, p, rec) ==
    /\ Ready(t)
    /\ <<p, nBytes>> \in held[t]
    /\ mem' = [mem EXCEPT ![p] = s_tp[t][nBytes]]
    /\ s_tp' = [s_tp EXCEPT ![t][nBytes] = p]
    /\ held' = [held EXCEPT ![t] = @ \ {<<p, nBytes>>}]
    /\ UNCHANGED <<s_pool, s_blocks, s_nettoAlloc, s_mutex, pc, loc, malloced,
                   carved, freed, phase>>
    /\ Log(rec, Event(t, "deallocate", nBytes, <<p>>, NULL))

\* The caller's chains: distinct elements it holds, in the order it links them.
CallerChains(t, nBytes) ==
    LET mine == {p \in Addrs : <<p, nBytes>> \in held[t]}
    IN  {q \in UNION {[1..k -> mine] : k \in 1..MaxChain} : NoDup(q)}

\* The caller links its chain head to tail before the call.
RECURSIVE LinkChain(_, _)
LinkChain(m, q) ==
    IF Len(q) <= 1 THEN m
    ELSE LinkChain([m EXCEPT ![q[1]] = q[2]], Tail(q))

\* deallocateList with pFreeBytes = MemElemPtr(pTail)
deallocateList_tailAsHead(t, nBytes, q, rec) ==
    /\ Ready(t)
    /\ q \in CallerChains(t, nBytes)
    /\ LET pTail == q[Len(q)]
           linked == LinkChain(mem, q)
       IN /\ mem' = [linked EXCEPT ![pTail] = s_tp[t][nBytes]]
          /\ s_tp' = [s_tp EXCEPT ![t][nBytes] = pTail]
    /\ held' = [held EXCEPT ![t] = @ \ {<<q[i], nBytes>> : i \in 1..Len(q)}]
    /\ UNCHANGED <<s_pool, s_blocks, s_nettoAlloc, s_mutex, pc, loc, malloced,
                   carved, freed, phase>>
    /\ Log(rec, Event(t, "deallocateList", nBytes, q, NULL))

deallocateList(t, nBytes, q, rec) ==
    /\ Ready(t)
    /\ q \in CallerChains(t, nBytes)
    /\ LET pHead == q[1]
           pTail == q[Len(q)]
           linked == LinkChain(mem, q)
       IN /\ mem' = [linked EXCEPT ![pTail] = s_tp[t][nBytes]]
          /\ s_tp' = [s_tp EXCEPT ![t][nBytes] = pHead]
    /\ held' = [held EXCEPT ![t] = @ \ {<<q[i], nBytes>> : i \in 1..Len(q)}]
    /\ UNCHANGED <<s_pool, s_blocks, s_nettoAlloc, s_mutex, pc, loc, malloced,
                   carved, freed, phase>>
    /\ Log(rec, Event(t, "deallocateList", nBytes, q, NULL))

(* ------------------------------------------------------------------ *)
(* fillPool                                                            *)
(* ------------------------------------------------------------------ *)

\* the slice positions of a block: base + i * nWords words, 0 <= i < nSlices
SlicesOf(base, nWords, nSlices) ==
    {base + i * nWords * OGDF_SIZEOF_POINTER : i \in 0..(nSlices - 1)}

\* allocateBlock with pBlock->m_next = nullptr
allocateBlock_dropsChain(t, nBytes, base) ==
    /\ mem' = [mem EXCEPT ![BlockLink(base)] = NULL]
    /\ s_blocks' = base
    /\ malloced' = Append(malloced, base)
    /\ s_tp' = [s_tp EXCEPT ![t][nBytes] = base]

\* allocateBlock with malloc returning the block at base
allocateBlock(t, nBytes, base) ==
    /\ mem' = [mem EXCEPT ![BlockLink(base)] = s_blocks]
    /\ s_blocks' = base
    /\ malloced' = Append(malloced, base)
    /\ s_tp' = [s_tp EXCEPT ![t][nBytes] = base]

\* fillPool_fromGlobal without pe.m_size -= nSlices
fillPool_fromGlobal_keepCount(t) ==
    /\ phase = "run" /\ pc[t] = "fill_cs"
    /\ LET nBytes  == loc[t].nBytes
           nSlices == slicesPerBlock(max(nBytes, eMinBytes))
           pe == s_pool[nBytes]
           p  == Advance(mem, pe.m_gp, nSlices - 1)
       IN /\ pe.m_size >= nSlices
          /\ s_tp' = [s_tp EXCEPT ![t][nBytes] = pe.m_gp]
          /\ s_pool' = [s_pool EXCEPT ![nBytes] =
                           [m_gp |-> mem[p], m_size |-> pe.m_size]]
          /\ loc' = [loc EXCEPT ![t].p = p]
    /\ leaveCS(t)
    /\ pc' = [pc EXCEPT ![t] = "fill_detach"]
    /\ UNCHANGED <<mem, s_blocks, s_nettoAlloc, held, malloced, carved, freed, phase, hist>>

\* fillPool_fromGlobal without pe.m_gp = p->m_next: the global head keeps
\* pointing at the batch handed to the thread
fillPool_fromGlobal_keepHead(t) ==
    /\ phase = "run" /\ pc[t] = "fill_cs"
    /\ LET nBytes  == loc[t].nBytes
           nSlices == slicesPerBlock(max(nBytes, eMinBytes))
           pe == s_pool[nBytes]
           p  == Advance(mem, pe.m_gp, nSlices - 1)
       IN /\ pe.m_size >= nSlices
          /\ s_tp' = [s_tp EXCEPT ![t][nBytes] = pe.m_gp]
          /\ s_pool' = [s_pool EXCEPT ![nBytes] =
                           [m_gp |-> pe.m_gp, m_size |-> pe.m_size - nSlices]]
          /\ loc' = [loc EXCEPT ![t].p = p]
    /\ leaveCS(t)
    /\ pc' = [pc EXCEPT ![t] = "fill_detach"]
    /\ UNCHANGED <<mem, s_blocks, s_nettoAlloc, held, malloced, carved, freed, phase, hist>>

\* critical section of fillPool, first branch: pe.m_size >= nSlices
fillPool_fromGlobal(t) ==
    /\ phase = "run" /\ pc[t] = "fill_cs"
    /\ LET nBytes  == loc[t].nBytes
           nSlices == slicesPerBlock(max(nBytes, eMinBytes))
           pe == s_pool[nBytes]
           p  == Advance(mem, pe.m_gp, nSlices - 1)
       IN /\ pe.m_size >= nSlices
          /\ s_tp' = [s_tp EXCEPT ![t][nBytes] = pe.m_gp]
          /\ s_pool' = [s_pool EXCEPT ![nBytes] =
                           [m_gp |-> mem[p], m_size |-> pe.m_size - nSlices]]
          /\ loc' = [loc EXCEPT ![t].p = p]
    /\ leaveCS(t)
    /\ pc' = [pc EXCEPT ![t] = "fill_detach"]
    /\ UNCHANGED <<mem, s_blocks, s_nettoAlloc, held, malloced, carved, freed, phase, hist>>

\* fillPool_newBlock entered when pe.m_size <= nSlices
fillPool_newBlock_offByOne(t) ==
    /\ phase = "run" /\ pc[t] = "fill_cs"
    /\ LET nBytes  == loc[t].nBytes
           nWords  == wordsPerSlice(max(nBytes, eMinBytes))
           nSlices == slicesPerBlock(max(nBytes, eMinBytes))
       IN /\ ~(s_pool[nBytes].m_size > nSlices)
          /\ \E b \in FreeSlots : allocateBlock(t, nBytes, BlockBase(b))
          /\ s_nettoAlloc' = s_nettoAlloc + nWords * nSlices
    /\ leaveCS(t)
    /\ pc' = [pc EXCEPT ![t] = "fill_slice"]
    /\ UNCHANGED <<s_pool, loc, held, carved, freed, phase, hist>>

\* critical section of fillPool, second branch: a new block
fillPool_newBlock(t) ==
    /\ phase = "run" /\ pc[t] = "fill_cs"
    /\ LET nBytes  == loc[t].nBytes
           nWords  == wordsPerSlice(max(nBytes, eMinBytes))
           nSlices == slicesPerBlock(max(nBytes, eMinBytes))
       IN /\ ~(s_pool[nBytes].m_size >= nSlices)
          /\ \E b \in FreeSlots : allocateBlock(t, nBytes, BlockBase(b))
          /\ s_nettoAlloc' = s_nettoAlloc + nWords * nSlices
    /\ leaveCS(t)
    /\ pc' = [pc EXCEPT ![t] = "fill_slice"]
    /\ UNCHANGED <<s_pool, loc, held, carved, freed, phase, hist>>

\* MemElemPtr p = pFreeBytes; pFreeBytes = p->m_next; return p;
fillPool_return(t, m, rec) ==
    LET nBytes == loc[t].nBytes
        p == s_tp[t][nBytes]
    IN /\ mem' = handOut(m, p)
       /\ s_tp' = [s_tp EXCEPT ![t][nBytes] = m[p]]
       /\ held' = [held EXCEPT ![t] = @ \cup {<<p, nBytes>>}]
       /\ pc' = [pc EXCEPT ![t] = "idle"]
       /\ loc' = [loc EXCEPT ![t] = NoLoc]
       /\ UNCHANGED <<s_pool, s_blocks, s_nettoAlloc, s_mutex, malloced, freed, phase>>
       /\ Log(rec, Event(t, "allocate", nBytes, <<>>, p))

\* fillPool_detach without p->m_next = nullptr
fillPool_detach_noCut(t, rec) ==
    /\ phase = "run" /\ pc[t] = "fill_detach"
    /\ UNCHANGED carved
    /\ fillPool_return(t, mem, rec)

\* after leaveCS() in the first branch: p->m_next = nullptr, then the pop
fillPool_detach(t, rec) ==
    /\ phase = "run" /\ pc[t] = "fill_detach"
    /\ UNCHANGED carved
    /\ fillPool_return(t, [mem EXCEPT ![loc[t].p] = NULL], rec)

\* after leaveCS() in the second branch: makeSlices, then the pop
fillPool_slice(t, rec) ==
    /\ phase = "run" /\ pc[t] = "fill_slice"
    /\ LET nBytes  == loc[t].nBytes
           nWords  == wordsPerSlice(max(nBytes, eMinBytes))
           nSlices == slicesPerBlock(max(nBytes, eMinBytes))
       IN /\ carved' = carved \cup
                {<<a, nBytes>> : a \in SlicesOf(s_tp[t][nBytes], nWords, nSlices)}
          /\ fillPool_return(t, makeSlices(mem, s_tp[t][nBytes], nWords, nSlices), rec)

(* ------------------------------------------------------------------ *)
(* flushPool                                                           *)
(* ------------------------------------------------------------------ *)

\* the next size class >= from whose local head is not null, or eTableSize
RECURSIVE NextNonEmpty(_, _)
NextNonEmpty(t, from) ==
    IF from >= eTableSize THEN eTableSize
    ELSE IF s_tp[t][from] # NULL THEN from
    ELSE NextNonEmpty(t, from + 1)

\* The loop of flushPool from size class `from` up to its next enterCS():
\* the walk to the tail with its count, pHead = nullptr, the lock; or the
\* return when no class is left.
flushPool_scan(t, from, rec) ==
    LET c == NextNonEmpty(t, from) IN
    IF c >= eTableSize
    THEN /\ pc' = [pc EXCEPT ![t] = "idle"]
         /\ loc' = [loc EXCEPT ![t] = NoLoc]
         /\ UNCHANGED <<mem, s_tp, s_pool, s_blocks, s_nettoAlloc, s_mutex, held,
                        malloced, carved, freed, phase>>
         /\ Log(rec, Event(t, "flushPool", 0, <<>>, NULL))
    ELSE LET l == LocalList(t, c) IN
         /\ enterCS(t)
         /\ loc' = [loc EXCEPT ![t] = [nBytes |-> c, p |-> NULL, pTail |-> l[Len(l)],
                                       n |-> Len(l), pOldHead |-> s_tp[t][c]]]
         /\ s_tp' = [s_tp EXCEPT ![t][c] = NULL]
         /\ pc' = [pc EXCEPT ![t] = "flush_cs"]
         /\ UNCHANGED <<mem, s_pool, s_blocks, s_nettoAlloc, held, malloced,
                        carved, freed, phase, hist>>

flushPool(t, rec) ==
    /\ Ready(t)
    /\ flushPool_scan(t, 1, rec)

\* flushPool_cs with ++pe.m_size in place of pe.m_size += n
flushPool_cs_countOne(t) ==
    /\ phase = "run" /\ pc[t] = "flush_cs"
    /\ LET c == loc[t].nBytes
           pe == s_pool[c]
       IN /\ mem' = [mem EXCEPT ![loc[t].pTail] = pe.m_gp]
          /\ s_pool' = [s_pool EXCEPT ![c] =
                           [m_gp |-> loc[t].pOldHead, m_size |-> pe.m_size + 1]]
    /\ leaveCS(t)
    /\ pc' = [pc EXCEPT ![t] = "flush_next"]
    /\ UNCHANGED <<s_tp, s_blocks, s_nettoAlloc, loc, held, malloced, carved, freed,
                   phase, hist>>

\* flushPool_cs without pTail->m_next = pe.m_gp
flushPool_cs_dropsGlobal(t) ==
    /\ phase = "run" /\ pc[t] = "flush_cs"
    /\ LET c == loc[t].nBytes
           pe == s_pool[c]
       IN /\ mem' = mem
          /\ s_pool' = [s_pool EXCEPT ![c] =
                           [m_gp |-> loc[t].pOldHead, m_size |-> pe.m_size + loc[t].n]]
    /\ leaveCS(t)
    /\ pc' = [pc EXCEPT ![t] = "flush_next"]
    /\ UNCHANGED <<s_tp, s_blocks, s_nettoAlloc, loc, held, malloced, carved, freed,
                   phase, hist>>

\* pTail->m_next = pe.m_gp; pe.m_gp = pOldHead; pe.m_size += n; leaveCS();
flushPool_cs(t) ==
    /\ phase = "run" /\ pc[t] = "flush_cs"
    /\ LET c == loc[t].nBytes
           pe == s_pool[c]
       IN /\ mem' = [mem EXCEPT ![loc[t].pTail] = pe.m_gp]
          /\ s_pool' = [s_pool EXCEPT ![c] =
                           [m_gp |-> loc[t].pOldHead, m_size |-> pe.m_size + loc[t].n]]
    /\ leaveCS(t)
    /\ pc' = [pc EXCEPT ![t] = "flush_next"]
    /\ UNCHANGED <<s_tp, s_blocks, s_nettoAlloc, loc, held, malloced, carved, freed,
                   phase, hist>>

flushPool_next(t, rec) ==
    /\ phase = "run" /\ pc[t] = "flush_next"
    /\ flushPool_scan(t, loc[t].nBytes + 1, rec)

(* ------------------------------------------------------------------ *)
(* defrag                                                              *)
(* ------------------------------------------------------------------ *)

defrag_enterCS(t) ==
    /\ Ready(t)
    /\ enterCS(t)
    /\ pc' = [pc EXCEPT ![t] = "defrag_cs"]
    /\ UNCHANGED <<mem, s_tp, s_pool, s_blocks, s_nettoAlloc, loc, held,
                   malloced, carved, freed, phase, hist>>

\* The loop over the size classes from sz on: the state it leaves, and
\* whether OGDF_ASSERT(i == n) held in every class it sorted.
RECURSIVE defragLoop(_, _, _)
defragLoop(m, pool, sz) ==
    IF sz >= eTableSize THEN [mem |-> m, pool |-> pool, ok |-> TRUE]
    ELSE LET n == pool[sz].m_size IN
         IF n > 1
         THEN LET a == Chain(m, pool[sz].m_gp) IN
              IF Len(a) # n THEN [mem |-> m, pool |-> pool, ok |-> FALSE]
              ELSE LET b == sort(a) IN
                   defragLoop(Relink(m, b),
                              [pool EXCEPT ![sz].m_gp = b[1]], sz + 1)
         ELSE defragLoop(m, pool, sz + 1)

\* defrag returning without leaveCS() when maxSize <= 1
defrag_cs_earlyReturn(t, rec) ==
    /\ phase = "run" /\ pc[t] = "defrag_cs"
    /\ LET r == defragLoop(mem, s_pool, 1) IN
        /\ mem' = r.mem
        /\ s_pool' = r.pool
        /\ phase' = IF r.ok THEN phase ELSE "defrag_asserted"
    /\ IF \A sz \in Classes : s_pool[sz].m_size <= 1
       THEN s_mutex' = s_mutex
       ELSE leaveCS(t)
    /\ pc' = [pc EXCEPT ![t] = "idle"]
    /\ UNCHANGED <<s_tp, s_blocks, s_nettoAlloc, loc, held, malloced, carved, freed>>
    /\ Log(rec, Event(t, "defrag", 0, <<>>, NULL))

defrag_cs(t, rec) ==
    /\ phase = "run" /\ pc[t] = "defrag_cs"
    /\ LET r == defragLoop(mem, s_pool, 1) IN
        /\ mem' = r.mem
        /\ s_pool' = r.pool
        /\ phase' = IF r.ok THEN phase ELSE "defrag_asserted"
    /\ leaveCS(t)
    /\ pc' = [pc EXCEPT ![t] = "idle"]
    /\ UNCHANGED <<s_tp, s_blocks, s_nettoAlloc, loc, held, malloced, carved, freed>>
    /\ Log(rec, Event(t, "defrag", 0, <<>>, NULL))

(* ------------------------------------------------------------------ *)
(* introspection                                                       *)
(* ------------------------------------------------------------------ *)

memoryAllocatedInBlocks_enterCS(t) ==
    /\ Ready(t)
    /\ enterCS(t)
    /\ pc' = [pc EXCEPT ![t] = "blocks_cs"]
    /\ UNCHANGED <<mem, s_tp, s_pool, s_blocks, s_nettoAlloc, loc, held,
                   malloced, carved, freed, phase, hist>>

memoryAllocatedInBlocks_cs(t, rec) ==
    /\ phase = "run" /\ pc[t] = "blocks_cs"
    /\ leaveCS(t)
    /\ pc' = [pc EXCEPT ![t] = "idle"]
    /\ UNCHANGED <<mem, s_tp, s_pool, s_blocks, s_nettoAlloc, loc, held,
                   malloced, carved, freed, phase>>
    /\ Log(rec, Event(t, "memoryAllocatedInBlocks", 0, <<>>,
                      Len(BlockChainOf(mem, s_blocks)) * eBlockSize))

memoryInGlobalFreeList_enterCS(t) ==
    /\ Ready(t)
    /\ enterCS(t)
    /\ pc' = [pc EXCEPT ![t] = "global_cs"]
    /\ UNCHANGED <<mem, s_tp, s_pool, s_blocks, s_nettoAlloc, loc, held,
                   malloced, carved, freed, phase, hist>>

memoryInGlobalFreeList_cs(t, rec) ==
    /\ phase = "run" /\ pc[t] = "global_cs"
    /\ leaveCS(t)
    /\ pc' = [pc EXCEPT ![t] = "idle"]
    /\ UNCHANGED <<mem, s_tp, s_pool, s_blocks, s_nettoAlloc, loc, held,
                   malloced, carved, freed, phase>>
    /\ Log(rec, Event(t, "memoryInGlobalFreeList", 0, <<>>,
                      unguardedMemGlobalFreelist(s_pool)))

\* MemElemPtr &p = s_tp[sz]; for(; p != nullptr; p = p->m_next) bytesFree += sz;
\* p is a reference to the table entry: the walk advances the head itself
\* and leaves it null.
memoryInThreadFreeList_heads(tp, t) == [tp EXCEPT ![t] = [sz \in Classes |-> NULL]]

memoryInThreadFreeList(t, rec) ==
    /\ Ready(t)
    /\ s_tp' = memoryInThreadFreeList_heads(s_tp, t)
    /\ UNCHANGED <<mem, s_pool, s_blocks, s_nettoAlloc, s_mutex, pc, loc, held,
                   malloced, carved, freed, phase>>
    /\ Log(rec, Event(t, "memoryInThreadFreeList", 0, <<>>,
                      ThreadBytes(mem, s_tp, t)))

(* ------------------------------------------------------------------ *)
(* cleanup                                                             *)
(* ------------------------------------------------------------------ *)

\* Called by thread t once every client has stopped. The debug assertion
\* aborts the process when it fails; otherwise the block chain is freed.
cleanup(t) ==
    /\ phase = "run"
    /\ \A u \in Threads : pc[u] = "idle"
    /\ LET memGlobalFreelist == unguardedMemGlobalFreelist(s_pool)
           memThreadFreelist == ThreadBytes(mem, s_tp, t)
       IN IF memGlobalFreelist + memThreadFreelist = s_nettoAlloc * OGDF_SIZEOF_POINTER
          THEN /\ phase' = "cleaned"
               /\ freed' = BlockChainOf(mem, s_blocks)
          ELSE /\ phase' = "asserted"
               /\ freed' = freed
    /\ s_tp' = memoryInThreadFreeList_heads(s_tp, t)
    /\ UNCHANGED <<mem, s_pool, s_blocks, s_nettoAlloc, s_mutex, pc, loc, held,
                   malloced, carved, hist>>

(* ------------------------------------------------------------------ *)
(* Specifications                                                      *)
(* ------------------------------------------------------------------ *)

\* Any number of interleaved clients calling allocate, deallocate,
\* deallocateList, flushPool and defrag, and one final cleanup.
Next ==
    \E t \in Threads :
        \/ \E s \in Sizes : allocate(t, s, 0)
        \/ \E s \in Sizes : fillPool_enterCS(t, s)
        \/ fillPool_fromGlobal(t)
        \/ fillPool_newBlock(t)
        \/ fillPool_detach(t, 0)
        \/ fillPool_slice(t, 0)
        \/ \E s \in Sizes, p \in Addrs : deallocate(t, s, p, 0)
        \/ \E s \in Sizes : \E q \in CallerChains(t, s) : deallocateList(t, s, q, 0)
        \/ flushPool(t, 0)
        \/ flushPool_cs(t)
        \/ flushPool_next(t, 0)
        \/ defrag_enterCS(t)
        \/ defrag_cs(t, 0)
        \/ cleanup(t)

Spec == Init /\ [][Next]_vars

\* One client thread calling every operation in any order; hist holds its
\* last completed call.
SeqNext ==
    \/ \E s \in Sizes : allocate(1, s, 1)
    \/ \E s \in Sizes : fillPool_enterCS(1, s)
    \/ fillPool_fromGlobal(1)
    \/ fillPool_newBlock(1)
    \/ fillPool_detach(1, 1)
    \/ fillPool_slice(1, 1)
    \/ \E s \in Sizes, p \in Addrs : deallocate(1, s, p, 1)
    \/ \E s \in Sizes : \E q \in CallerChains(1, s) : deallocateList(1, s, q, 1)
    \/ flushPool(1, 1)
    \/ flushPool_cs(1)
    \/ flushPool_next(1, 1)
    \/ defrag_enterCS(1)
    \/ defrag_cs(1, 1)
    \/ memoryAllocatedInBlocks_enterCS(1)
    \/ memoryAllocatedInBlocks_cs(1, 1)
    \/ memoryInGlobalFreeList_enterCS(1)
    \/ memoryInGlobalFreeList_cs(1, 1)
    \/ memoryInThreadFreeList(1, 1)

SpecSeq == Init /\ [][SeqNext]_vars

\* The same operations with the call and the wait for the lock as steps of
\* their own: a thread that has called an operation stands before enterCS()
\* until the mutex is free.

\* allocate with pFreeBytes == nullptr, up to enterCS() in fillPool. The
\* clients acquire at most `blocks` blocks: a call is made when a batch on
\* the global list or a block is left for every refill on its way.
fillPool_call(t, nBytes, blocks) ==
    /\ Ready(t)
    /\ s_tp[t][nBytes] = NULL
    /\ (blocks - Len(malloced))
         + (s_pool[nBytes].m_size \div slicesPerBlock(max(nBytes, eMinBytes)))
       > Cardinality({u \in Threads : pc[u] \in {"fill_wait", "fill_cs"}})
    /\ pc' = [pc EXCEPT ![t] = "fill_wait"]
    /\ loc' = [loc EXCEPT ![t] = [NoLoc EXCEPT !.nBytes = nBytes]]
    /\ UNCHANGED <<mem, s_tp, s_pool, s_blocks, s_nettoAlloc, s_mutex, held,
                   malloced, carved, freed, phase, hist>>

\* flushPool is called; its loop starts at size class 1
flushPool_call(t) ==
    /\ Ready(t)
    /\ pc' = [pc EXCEPT ![t] = "flush_next"]
    /\ loc' = [loc EXCEPT ![t] = NoLoc]
    /\ UNCHANGED <<mem, s_tp, s_pool, s_blocks, s_nettoAlloc, s_mutex, held,
                   malloced, carved, freed, phase, hist>>

\* defrag, memoryAllocatedInBlocks or memoryInGlobalFreeList is called
lockedOp_call(t, wait) ==
    /\ Ready(t)
    /\ pc' = [pc EXCEPT ![t] = wait]
    /\ UNCHANGED <<mem, s_tp, s_pool, s_blocks, s_nettoAlloc, s_mutex, loc, held,
                   malloced, carved, freed, phase, hist>>

\* s_mutex.lock() returns without the mutex being held
lock_notTaken(t, wait, cs) ==
    /\ phase = "run" /\ pc[t] = wait
    /\ s_mutex' = s_mutex
    /\ pc' = [pc EXCEPT ![t] = cs]
    /\ UNCHANGED <<mem, s_tp, s_pool, s_blocks, s_nettoAlloc, loc, held,
                   malloced, carved, freed, phase, hist>>

\* enterCS() returns: the thread owns the mutex
lock(t, wait, cs) ==
    /\ phase = "run" /\ pc[t] = wait
    /\ enterCS(t)
    /\ pc' = [pc EXCEPT ![t] = cs]
    /\ UNCHANGED <<mem, s_tp, s_pool, s_blocks, s_nettoAlloc, loc, held,
                   malloced, carved, freed, phase, hist>>

Start(t, blocks) ==
    \/ fillPool_call(t, 16, blocks)
    \/ flushPool_call(t)
    \/ lockedOp_call(t, "defrag_wait")
    \/ lockedOp_call(t, "blocks_wait")
    \/ lockedOp_call(t, "global_wait")

Acquire(t) ==
    \/ lock(t, "fill_wait", "fill_cs")
    \/ lock(t, "defrag_wait", "defrag_cs")
    \/ lock(t, "blocks_wait", "blocks_cs")
    \/ lock(t, "global_wait", "global_cs")

\* the steps of a started operation other than the first enterCS()
Proceed(t) ==
    \/ fillPool_fromGlobal(t)
    \/ fillPool_newBlock(t)
    \/ fillPool_detach(t, 0)
    \/ fillPool_slice(t, 0)
    \/ flushPool_next(t, 0)
    \/ flushPool_cs(t)
    \/ defrag_cs(t, 0)
    \/ memoryAllocatedInBlocks_cs(t, 0)
    \/ memoryInGlobalFreeList_cs(t, 0)

FastPath(t) ==
    \/ allocate(t, 16, 0)
    \/ \E p \in Addrs : deallocate(t, 16, p, 0)

LockNext ==
    \E t \in Threads : Start(t, MaxBlocks) \/ Acquire(t) \/ Proceed(t) \/ FastPath(t)

SpecLock == Init /\ [][LockNext]_vars

\* the same clients with FairBlocks blocks
FairNext ==
    \E t \in Threads : Start(t, FairBlocks) \/ Acquire(t) \/ Proceed(t) \/ FastPath(t)

\* Fair scheduling: a thread that can take the next step of its operation
\* eventually takes it, and a thread that stands before enterCS() while the
\* mutex is free again and again eventually gets it.
Fairness ==
    \A t \in Threads :
        /\ WF_vars(Proceed(t))
        /\ SF_vars(Acquire(t) \/ flushPool_next(t, 0))

SpecFair == Init /\ [][FairNext]_vars /\ Fairness

\* makeSlices on its own: a block fresh from malloc, whose words hold
\* anything (here a null or a non-null value), a stride of nWords words
\* taken from a size, and every slice count from 1 up to what fits in front
\* of the block's chain link.
SliceInit ==
    /\ \E b \in Slots :
         /\ mem \in [Addrs -> {NULL, USED}]
         /\ \A a \in Addrs \ BlockWords(b) : mem[a] = USED
         /\ \E nBytes \in {8, 16} : \E nSlices \in 1..slicesPerBlock(nBytes) :
              loc = [t \in Threads |->
                       IF t = 1 THEN [NoLoc EXCEPT !.nBytes = nBytes, !.n = nSlices,
                                                   !.p = BlockBase(b)]
                       ELSE NoLoc]
    /\ s_tp = [t \in Threads |-> [c \in Classes |-> NULL]]
    /\ s_pool = [c \in Classes |-> [m_gp |-> NULL, m_size |-> 0]]
    /\ s_blocks = NULL
    /\ s_nettoAlloc = 0
    /\ s_mutex = NoThread
    /\ pc = [t \in Threads |-> IF t = 1 THEN "slice_call" ELSE "idle"]
    /\ held = [t \in Threads |-> {}]
    /\ malloced = <<>>
    /\ carved = {}
    /\ freed = <<>>
    /\ phase = "run"
    /\ hist = <<>>

\* makeSlices(pBlock, nWords, nSlices) is called and returns
makeSlices_call(t) ==
    /\ pc[t] = "slice_call"
    /\ mem' = makeSlices(mem, loc[t].p, wordsPerSlice(loc[t].nBytes), loc[t].n)
    /\ pc' = [pc EXCEPT ![t] = "slice_done"]
    /\ UNCHANGED <<s_tp, s_pool, s_blocks, s_nettoAlloc, s_mutex, loc, held,
                   malloced, carved, freed, phase, hist>>

SliceNext == makeSlices_call(1)

SpecSlices == SliceInit /\ [][SliceNext]_vars

\* A scripted client on a fresh allocator: up to MaxCount allocations of
\* one size, then deallocations (one by one in any order, or as chains),
\* then as many allocations as slices were given back. hist holds every
\* call. (The global pool stays empty, so fillPool takes its second branch.)
IsFree(e) == e.op \in {"deallocate", "deallocateList"}
FreeAt == {i \in 1..Len(hist) : IsFree(hist[i])}
NFirst == IF FreeAt = {} THEN Len(hist)
          ELSE (CHOOSE i \in FreeAt : \A j \in FreeAt : i <= j) - 1
NFreed == SumOver(FreeAt, [i \in FreeAt |-> Len(hist[i].arg)])
NAgain == Cardinality({i \in 1..Len(hist) :
              hist[i].op = "allocate" /\ \E j \in FreeAt : j < i})
MayAllocate(s) ==
    /\ IF hist = <<>> THEN TRUE ELSE hist[1].nBytes = s
    /\ \/ FreeAt = {} /\ Len(hist) < MaxCount
       \/ FreeAt # {} /\ NAgain < NFreed
MayFree == NAgain = 0

RoundsNext ==
    \/ \E s \in AllSizes : MayAllocate(s) /\ allocate(1, s, 3 * MaxCount)
    \/ \E s \in AllSizes : MayAllocate(s) /\ fillPool_enterCS(1, s)
    \/ fillPool_newBlock(1)
    \/ fillPool_slice(1, 3 * MaxCount)
    \/ \E s \in AllSizes, p \in Addrs : MayFree /\ deallocate(1, s, p, 3 * MaxCount)
    \/ \E s \in AllSizes : \E q \in CallerChains(1, s) :
            MayFree /\ deallocateList(1, s, q, 3 * MaxCount)

SpecRounds == Init /\ [][RoundsNext]_vars

\* A client that only allocates, sizes 8 and 16, on a fresh allocator;
\* hist holds every call.
FreshNext ==
    \/ \E s \in {8, 16} : Len(hist) < MaxAllocs /\ allocate(1, s, MaxAllocs)
    \/ \E s \in {8, 16} : Len(hist) < MaxAllocs /\ fillPool_enterCS(1, s)
    \/ fillPool_newBlock(1)
    \/ fillPool_slice(1, MaxAllocs)

SpecFresh == Init /\ [][FreshNext]_vars

(* ------------------------------------------------------------------ *)
(* Where a slice is                                                    *)
(* ------------------------------------------------------------------ *)

Occ(q, a) == Cardinality({i \in 1..Len(q) : q[i] = a})

InFillTail(t) == pc[t] \in {"fill_detach", "fill_slice"}

\* The slices a thread is moving inside a running flushPool or fillPool:
\* the chain flushPool has taken off its local list and not yet spliced
\* into the global list, and the batch fillPool has taken off the global
\* list and not yet cut from the rest of it. (The slices of a new block come
\* into being when makeSlices links them.)
Transit(t) ==
    LET c == loc[t].nBytes IN
    CASE pc[t] = "flush_cs" -> Chain(mem, loc[t].pOldHead)
      [] pc[t] = "fill_detach" ->
            Walk(mem, s_tp[t][c], slicesPerBlock(max(c, eMinBytes)))
      [] OTHER -> <<>>

HeldBy(a, c) == Cardinality({t \in Threads : <<a, c>> \in held[t]})
InGlobal(a, c) == Occ(GlobalList(c), a)
InLocal(a, c) == SumOver(Threads, [t \in Threads |-> Occ(LocalList(t, c), a)])
\* the local lists as their owners see them: a list that its thread is
\* refilling inside fillPool is not a list yet
InSettledLocal(a, c) ==
    SumOver(Threads, [t \in Threads |->
        IF InFillTail(t) /\ loc[t].nBytes = c THEN 0 ELSE Occ(LocalList(t, c), a)])
InTransit(a, c) ==
    SumOver(Threads, [t \in Threads |->
        IF loc[t].nBytes = c THEN Occ(Transit(t), a) ELSE 0])

CarvedOf(c) == {a \in Addrs : <<a, c>> \in carved}
ListsHoldSlices(c) ==
    /\ Range(GlobalList(c)) \subseteq CarvedOf(c)
    /\ \A t \in Threads :
        /\ (InFillTail(t) /\ loc[t].nBytes = c) \/ Range(LocalList(t, c)) \subseteq CarvedOf(c)
        /\ \A x \in held[t] : x[2] = c => x[1] \in CarvedOf(c)

\* C1, as claimed: in every reachable state before cleanup, every slice is
\* in exactly one place: in use by exactly one caller, or exactly once in
\* exactly one free list (the global list or one thread's local list of its
\* size class).
C1_OnePlaceInEveryState ==
    phase = "run" =>
        \A x \in carved :
            HeldBy(x[1], x[2]) + InGlobal(x[1], x[2]) + InLocal(x[1], x[2]) = 1

\* C1, amended: in every reachable state before cleanup, every slice is in
\* exactly one place: in use by exactly one caller, exactly once in exactly
\* one free list of its size class, or in transit with exactly one thread
\* that is inside flushPool or fillPool; free lists and callers hold nothing
\* but slices of their size class, so no free list has a duplicate or a
\* cycle and no live address is on a free list.
C1_OnePlace ==
    phase = "run" =>
        /\ \A x \in carved :
            HeldBy(x[1], x[2]) + InGlobal(x[1], x[2]) + InSettledLocal(x[1], x[2])
                + InTransit(x[1], x[2]) = 1
        /\ \A c \in Classes : ListsHoldSlices(c)

\* C1 witness: a thread is between the two halves of a refill from the
\* global list, with slices that another thread flushed, while the other
\* thread's caller holds a slice and the other thread caches one.
C1_Witness ==
    /\ phase = "run"
    /\ \E t \in Threads :
        /\ pc[t] = "fill_detach"
        /\ \E u \in Threads \ {t} :
            /\ held[u] # {}
            /\ \E c \in Sizes : s_tp[u][c] # NULL

(* ------------------------------------------------------------------ *)
(* flushPool, cleanup, accounting, introspection, defrag               *)
(* ------------------------------------------------------------------ *)

\* what the sequential client saw when its previous call returned
NoEvent ==
    [t |-> 1, op |-> "none", nBytes |-> 0, arg |-> <<>>, ret |-> NULL,
     blocks |-> 0, glob |-> 0, thr |-> 0,
     gl |-> [c \in AllSizes |-> <<>>], tl |-> [c \in AllSizes |-> <<>>]]
PrevEvent == IF hist = <<>> THEN NoEvent ELSE hist[1]

\* the step with which a call of op by the sequential client returns
Returns(op) ==
    /\ pc'[1] = "idle"
    /\ hist' # <<>> /\ hist'[1].op = op

\* C2: when flushPool returns, every local head of the caller is null,
\* memoryInGlobalFreeList() has grown by exactly the bytes that were in the
\* caller's local lists before the call, and the global list of each class
\* is the flushed local chain followed by the previous global list.
C2_FlushInvariant ==
    [][Returns("flushPool") =>
        /\ \A c \in Classes : s_tp'[1][c] = NULL
        /\ hist'[1].thr = 0
        /\ hist'[1].glob = PrevEvent.glob + PrevEvent.thr
        /\ \A c \in AllSizes : hist'[1].gl[c] = PrevEvent.tl[c] \o PrevEvent.gl[c]]_vars

\* C2 witness: flushPool has spliced a local chain in front of a global
\* list that was not empty.
C2_Witness ==
    /\ pc[1] = "flush_next"
    /\ loc[1].n >= 1
    /\ s_pool[loc[1].nBytes].m_size > loc[1].n
    /\ hist # <<>>

\* C3: when every allocation has been matched by a deallocation (no caller
\* holds a slice), the assertion at the start of cleanup() holds.
C3_CleanupDoesNotAssert ==
    phase = "asserted" => \E t \in Threads : held[t] # {}

HeldBytes == SumOver(Threads, [t \in Threads |->
                 SumOver(held[t], [x \in held[t] |-> x[2]])])
FreeBytes ==
    SumOver(Classes, [c \in Classes |-> c * Len(GlobalList(c))])
      + SumOver(Threads, [t \in Threads |-> ThreadBytes(mem, s_tp, t)])
Quiescent == phase = "run" /\ \A t \in Threads : pc[t] = "idle"

\* C4: whenever no thread is inside an operation, the bytes on the global
\* free lists plus the bytes on all thread-local free lists plus the bytes in
\* use equal the bytes carved from all blocks obtained so far.
C4_ByteConservation ==
    Quiescent => FreeBytes + HeldBytes = s_nettoAlloc * OGDF_SIZEOF_POINTER

IntrospectionOps ==
    {"memoryAllocatedInBlocks", "memoryInGlobalFreeList", "memoryInThreadFreeList"}

\* C5: the introspection calls leave the local heads, the global lists and
\* counts and the block chain as they were, and a call repeated at once
\* returns the same value.
C5_IntrospectionReadOnly ==
    [][(\E op \in IntrospectionOps : Returns(op) /\ pc[1] \in {"idle", "blocks_cs", "global_cs"}) =>
        /\ UNCHANGED <<mem, s_tp, s_pool, s_blocks>>
        /\ (hist # <<>> /\ hist[1].op = hist'[1].op) => hist'[1].ret = hist[1].ret]_vars

Ascending(q) == \A i \in 1..(Len(q) - 1) : q[i] <= q[i + 1]
NullEnded(m, q) == q = <<>> \/ m[q[Len(q)]] = NULL

\* C6: the step in which defrag relinks the global lists keeps, for every
\* size class, the set of addresses and the count of the global list, leaves
\* every thread's local heads and lists alone, and leaves every global list
\* in ascending address order, ended by a null link.
C6_DefragSortsAndKeeps ==
    [][\A t \in Threads : (pc[t] = "defrag_cs" /\ pc'[t] = "idle") =>
        /\ phase' = phase
        /\ s_tp' = s_tp
        /\ \A c \in Classes :
            /\ Range(PoolList(mem', s_pool', c)) = Range(GlobalList(c))
            /\ Len(PoolList(mem', s_pool', c)) = Len(GlobalList(c))
            /\ s_pool'[c].m_size = s_pool[c].m_size
            /\ Ascending(PoolList(mem', s_pool', c))
            /\ NullEnded(mem', PoolList(mem', s_pool', c))
            /\ \A u \in Threads :
                  (InFillTail(u) /\ loc[u].nBytes = c)
                  \/ ListOf(mem', s_tp', u, c) = LocalList(u, c)]_vars

\* C6 witness: defrag holds the lock over a global list of at least three
\* elements that is not in address order, while the other thread caches
\* slices of its own.
C6_Witness ==
    \E t \in Threads, c \in Sizes :
        /\ pc[t] = "defrag_cs"
        /\ Len(GlobalList(c)) >= 3
        /\ ~Ascending(GlobalList(c))
        /\ \E u \in Threads \ {t}, d \in Sizes : s_tp[u][d] # NULL

(* ------------------------------------------------------------------ *)
(* Reuse, LIFO order, chains, block acquisition                        *)
(* ------------------------------------------------------------------ *)

\* C7: once the scripted client has started to give slices back, no block
\* is acquired any more: the allocations of the second round, as many as
\* slices were given back, are all served from the local list. (With n
\* allocations, n calls of deallocate in any order and n allocations this
\* is the claim's scenario.)
C7_ReuseWithoutNewBlock ==
    FreeAt # {} =>
        /\ Len(malloced) = hist[NFirst].blocks
        /\ \A i \in NFirst..Len(hist) : hist[i].blocks = hist[NFirst].blocks
        /\ (pc[1] = "idle" /\ NAgain < NFreed) => s_tp[1][hist[1].nBytes] # NULL

\* C7 witness: MaxCount allocations that took two blocks, MaxCount calls of
\* deallocate in an order that is neither first-in nor last-in first, and
\* MaxCount allocations again.
C7_Witness ==
    /\ Len(hist) = 3 * MaxCount
    /\ NFirst = MaxCount
    /\ \A i \in (MaxCount + 1)..(2 * MaxCount) : hist[i].op = "deallocate"
    /\ hist[MaxCount + 1].arg[1] = hist[2].ret
    /\ hist[MaxCount].blocks = 2
    /\ pc[1] = "idle"

\* the step with which a call of allocate(s) by the sequential client
\* returns, on the fast path or out of fillPool
AllocReturns(s) ==
    /\ Returns("allocate") /\ hist'[1].nBytes = s
    /\ hist' # hist
    /\ pc[1] \in {"idle", "fill_detach", "fill_slice"}

\* C8: an allocate(s) that directly follows deallocate(s, p) on the same
\* thread returns p; the local list of a size class is a stack: deallocate
\* puts its element in front of the list, and an allocate that finds the
\* list non-empty returns its first element and leaves the rest.
C8_LifoStack ==
    [][\A s \in Sizes :
        /\ (AllocReturns(s) /\ hist # <<>> /\ hist[1].op = "deallocate"
                /\ hist[1].nBytes = s)
             => hist'[1].ret = hist[1].arg[1]
        /\ (AllocReturns(s) /\ pc[1] = "idle")
             => /\ LocalList(1, s) # <<>>
                /\ hist'[1].ret = Head(LocalList(1, s))
                /\ ListOf(mem', s_tp', 1, s) = Tail(LocalList(1, s))
        /\ (Returns("deallocate") /\ hist'[1].nBytes = s /\ hist' # hist)
             => ListOf(mem', s_tp', 1, s) = hist'[1].arg \o LocalList(1, s)]_vars

\* C8 witness: deallocate(s, p) has just returned and p lies on top of
\* two older elements of the local list, the lower address not first, while
\* the thread still holds a slice: the allocate(s) that follows pops p.
C8_Witness ==
    /\ pc[1] = "idle"
    /\ hist # <<>> /\ hist[1].op = "deallocate"
    /\ \E s \in Sizes :
        /\ hist[1].nBytes = s
        /\ Len(LocalList(1, s)) >= 3
        /\ Head(LocalList(1, s)) = hist[1].arg[1]
        /\ LocalList(1, s)[1] > LocalList(1, s)[2]
        /\ held[1] # {}

\* C9: deallocateList(s, head, tail) puts the chain in front of what the
\* local list held, in chain order, and the allocate(s) calls that follow
\* it, up to the length of the chain, return the chain's addresses in order
\* from head to tail without a new block.
C9_ChainComesBack ==
    \A i \in 1..Len(hist) :
        hist[i].op = "deallocateList" =>
            LET q == hist[i].arg
                s == hist[i].nBytes
            IN /\ i > 1
               /\ hist[i].tl[s] = q \o hist[i - 1].tl[s]
               /\ \A j \in 1..Len(q) :
                    (/\ i + j <= Len(hist)
                     /\ \A m \in (i + 1)..(i + j) : hist[m].op = "allocate")
                    => /\ hist[i + j].ret = q[j]
                       /\ hist[i + j].blocks = hist[i].blocks

\* C9 witness: a chain of MaxChain slices spliced in front of a local list
\* that was not empty, and MaxChain allocations after it.
C9_Witness ==
    \E i \in 2..Len(hist) :
        /\ hist[i].op = "deallocateList"
        /\ Len(hist[i].arg) = MaxChain
        /\ hist[i - 1].tl[hist[i].nBytes] # <<>>
        /\ i + MaxChain <= Len(hist)
        /\ \A m \in (i + 1)..(i + MaxChain) : hist[m].op = "allocate"
        /\ pc[1] = "idle"

\* the calls of allocate(s) in hist, in order
AllocsOf(s) == SelectSeq(hist, LAMBDA e : e.op = "allocate" /\ e.nBytes = s)
\* the blocks acquired during the i-th call in hist
Acquired(i) == hist[i].blocks - (IF i = 1 THEN 0 ELSE hist[i - 1].blocks)
IndexOf(e) == CHOOSE i \in 1..Len(hist) : hist[i] = e

\* C10: on a fresh allocator with 4 slices of size 8 per block, the first
\* allocate(8) acquires one block and the next three none; the four
\* addresses are block start + i * 8, i = 0..3, of that block; the fifth
\* allocate(8) acquires exactly one further block; no allocate(16) returns
\* an address inside a block acquired for size-8 slices.
C10_BlockAcquisition ==
    LET a8 == AllocsOf(8)
        k  == slicesPerBlock(8)
    IN  a8 # <<>> =>
          LET first == IndexOf(a8[1])
              base  == malloced[hist[first].blocks]
          IN /\ Acquired(first) = 1
             /\ \A j \in 1..Len(a8) :
                  /\ (1 < j /\ j <= k) => Acquired(IndexOf(a8[j])) = 0
                  /\ j <= k => a8[j].ret = base + (j - 1) * wordsPerSlice(8)
                                                     * OGDF_SIZEOF_POINTER
                  /\ j = k + 1 => Acquired(IndexOf(a8[j])) = 1
             /\ \A i, j \in 1..Len(hist) :
                  (hist[i].nBytes = 16 /\ hist[j].nBytes = 8 /\ Acquired(j) = 1)
                  => hist[i].ret \notin
                        BlockWords(malloced[hist[j].blocks] \div eBlockSize)

\* C10 witness: five allocations of size 8, the fifth from a second block.
C10_Witness ==
    /\ Len(AllocsOf(8)) = slicesPerBlock(8) + 1
    /\ pc[1] = "idle"

(* ------------------------------------------------------------------ *)
(* Lock discipline, consistency of counts, the two refill branches      *)
(* ------------------------------------------------------------------ *)

\* the positions between enterCS() and leaveCS(): the only ones from which
\* fillPool, flushPool, defrag, memoryAllocatedInBlocks and
\* memoryInGlobalFreeList read or write s_pool and s_blocks
InCS(t) == pc[t] \in {"fill_cs", "flush_cs", "defrag_cs", "blocks_cs", "global_cs"}
WholeGlobalLists ==
    \A c \in Classes : /\ s_pool[c].m_size = Len(GlobalList(c))
                       /\ NoDup(GlobalList(c))
                       /\ NullEnded(mem, GlobalList(c))

\* C11: a thread that stands between enterCS() and leaveCS() owns the mutex,
\* so at most one thread does; a thread that owns the mutex stands there;
\* every step that changes a global head, a global count or the block-chain
\* anchor is taken by the owner of the mutex from inside its critical
\* section; and the owner finds every global list whole (count and length
\* agree, null-ended), also when the other thread runs defrag at any time.
C11_LockDiscipline ==
    [][/\ \A t \in Threads : InCS(t) <=> s_mutex = t
       /\ \A t \in Threads : (InCS(t) <=> s_mutex = t)'
       /\ (s_mutex # NoThread) => WholeGlobalLists
       /\ (s_pool' # s_pool \/ s_blocks' # s_blocks)
            => /\ s_mutex \in Threads
               /\ InCS(s_mutex)
               /\ pc'[s_mutex] # pc[s_mutex]
               /\ \A u \in Threads \ {s_mutex} : pc'[u] = pc[u] /\ s_tp'[u] = s_tp[u]]_vars

\* C11 witness: one thread is inside defrag's critical section with two
\* elements on a global list in descending order while the other thread,
\* which missed its local list, waits in fillPool for the mutex.
C11_Witness ==
    \E t, u \in Threads :
        /\ t # u
        /\ pc[t] = "defrag_cs" /\ s_mutex = t
        /\ pc[u] = "fill_wait"
        /\ \E c \in Classes : /\ Len(GlobalList(c)) >= 2
                              /\ GlobalList(c)[1] > GlobalList(c)[2]

\* C12: while the mutex is free, the stored count of every size class is the
\* number of elements reachable from its global head, whatever flushPool,
\* the refill from the global pool and defrag of the two threads did; the
\* assertion i == n of defrag never fails; and a refill that takes the first
\* branch finds at least nSlices elements on the list it walks.
C12_CountMatchesList ==
    /\ phase # "defrag_asserted"
    /\ s_mutex = NoThread =>
         \A c \in Classes : /\ s_pool[c].m_size = Len(GlobalList(c))
                            /\ NoDup(GlobalList(c))
    /\ \A t \in Threads :
         (pc[t] = "fill_cs" /\ s_pool[loc[t].nBytes].m_size
                                 >= slicesPerBlock(max(loc[t].nBytes, eMinBytes)))
         => Len(GlobalList(loc[t].nBytes))
                >= slicesPerBlock(max(loc[t].nBytes, eMinBytes))

\* C12 witness: a refill has just detached its batch from a global list and
\* released the mutex, elements remain on that list, and the other thread
\* is between two critical sections of its flushPool.
C12_Witness ==
    \E t, u \in Threads :
        /\ pc[t] = "fill_detach" /\ s_mutex = NoThread
        /\ s_pool[loc[t].nBytes].m_size >= 1
        /\ pc[u] = "flush_next" /\ loc[u].n >= 1

\* C13: an allocate(s) of the sequential client that finds its local list
\* empty and at least n = slicesPerBlock(s) elements G on the global list
\* acquires no block, returns G[1], leaves G[2..n] null-ended as the local
\* list of s and G[n+1..] as the global list with the count n smaller, and
\* changes no other list.
C13_RefillFromGlobal ==
    [][\A s \in Sizes :
        LET n == slicesPerBlock(max(s, eMinBytes))
            G == PrevEvent.gl[s]
        IN (AllocReturns(s) /\ PrevEvent.tl[s] = <<>> /\ Len(G) >= n)
           => /\ pc[1] = "fill_detach"
              /\ hist'[1].blocks = PrevEvent.blocks
              /\ hist'[1].ret = G[1]
              /\ hist'[1].tl[s] = SubSeq(G, 2, n)
              /\ NullEnded(mem', hist'[1].tl[s])
              /\ hist'[1].gl[s] = SubSeq(G, n + 1, Len(G))
              /\ s_pool'[s].m_size = Len(G) - n
              /\ \A c \in Sizes \ {s} : /\ hist'[1].gl[c] = PrevEvent.gl[c]
                                        /\ hist'[1].tl[c] = PrevEvent.tl[c]
                                        /\ s_pool'[c] = s_pool[c]]_vars

\* C13 witness: the refill has detached the first n of more than n elements
\* of a global list that was not in address order.
C13_Witness ==
    /\ pc[1] = "fill_detach" /\ hist # <<>>
    /\ LET s == loc[1].nBytes
           n == slicesPerBlock(max(s, eMinBytes))
           G == hist[1].gl[s]
       IN /\ Len(G) > n
          /\ G[1] > G[2]
          /\ s_tp[1][s] = G[1]
          /\ s_pool[s].m_size = Len(G) - n

\* the slices of the block at base behind the first, in address order
RestOfBlock(base, s) ==
    [i \in 1..(slicesPerBlock(max(s, eMinBytes)) - 1) |->
        base + i * wordsPerSlice(max(s, eMinBytes)) * OGDF_SIZEOF_POINTER]

\* C14: an allocate(s) of the sequential client that finds its local list
\* empty and fewer than n = slicesPerBlock(s) elements on the global list
\* (none or some) acquires exactly one block, returns its first slice and
\* leaves the other slices as the local list of s, with every global list
\* and count and every other local list as before; the block is put at the
\* head of the block chain by a step taken with the mutex held, the slicing
\* step is taken with the mutex released, and a block is acquired only by a
\* refill that found fewer than n elements on the global list.
C14_RefillFromNewBlock ==
    [][/\ \A s \in Sizes :
            LET n == slicesPerBlock(max(s, eMinBytes))
            IN (AllocReturns(s) /\ PrevEvent.tl[s] = <<>> /\ Len(PrevEvent.gl[s]) < n)
               => /\ pc[1] = "fill_slice" /\ s_mutex = NoThread
                  /\ hist'[1].blocks = PrevEvent.blocks + 1
                  /\ hist'[1].ret = malloced[Len(malloced)]
                  /\ hist'[1].tl[s] = RestOfBlock(hist'[1].ret, s)
                  /\ \A c \in Sizes :
                        /\ hist'[1].gl[c] = PrevEvent.gl[c]
                        /\ s_pool'[c].m_size = Len(PrevEvent.gl[c])
                        /\ c # s => hist'[1].tl[c] = PrevEvent.tl[c]
       /\ malloced' # malloced
            => /\ pc[1] = "fill_cs" /\ s_mutex = 1
               /\ s_tp[1][loc[1].nBytes] = NULL
               /\ s_pool[loc[1].nBytes].m_size
                     < slicesPerBlock(max(loc[1].nBytes, eMinBytes))
               /\ Len(malloced') = Len(malloced) + 1
               /\ s_blocks' = malloced'[Len(malloced')]
               /\ BlockChainOf(mem', s_blocks')
                     = <<s_blocks'>> \o BlockChainOf(mem, s_blocks)
               /\ s_pool' = s_pool]_vars

\* C14 witness: a second block has been registered for a refill that found
\* one element, fewer than n, on the global list of its size class; the
\* mutex is released and the block not yet sliced.
C14_Witness ==
    /\ pc[1] = "fill_slice" /\ s_mutex = NoThread
    /\ Len(malloced) = 2
    /\ s_pool[loc[1].nBytes].m_size >= 1
    /\ GlobalList(loc[1].nBytes) # <<>>

(* ------------------------------------------------------------------ *)
(* The slicer                                                          *)
(* ------------------------------------------------------------------ *)

Moved(t) == (held'[t] \ held[t]) \cup (held[t] \ held'[t])

\* C16: a step that is a deallocate, a deallocateList or an allocate served
\* from the local list (the caller's set of slices changes and no thread
\* moves inside an operation) changes the local list of the calling thread
\* for the size class of the call and nothing else: not the global heads,
\* counts and lists, the block chain, the mutex, the other thread's heads
\* and lists, or the caller's heads and lists of the other size classes.
\* (Of a thread that stands in fillPool behind leaveCS() the list is the
\* batch it has detached: the link behind the batch is not cut yet.)
C16_FastPathFrame ==
    [][(pc' = pc /\ held' # held) =>
        \E t \in Threads, s \in Sizes :
            /\ Moved(t) # {} /\ \A e \in Moved(t) : e[2] = s
            /\ ListOf(mem', s_tp', t, s) # LocalList(t, s)
            /\ \A c \in Classes \ {s} :
                  /\ s_tp'[t][c] = s_tp[t][c]
                  /\ ListOf(mem', s_tp', t, c) = LocalList(t, c)
            /\ \A u \in Threads \ {t} :
                  /\ held'[u] = held[u]
                  /\ s_tp'[u] = s_tp[u]
                  /\ Transit(u)' = Transit(u)
                  /\ \A c \in Classes :
                        ~(InFillTail(u) /\ loc[u].nBytes = c)
                        => ListOf(mem', s_tp', u, c) = LocalList(u, c)
            /\ s_pool' = s_pool /\ s_blocks' = s_blocks /\ s_mutex' = s_mutex
            /\ malloced' = malloced
            /\ \A c \in Classes : PoolList(mem', s_pool', c) = GlobalList(c)
            /\ BlockChainOf(mem', s_blocks') = BlockChainOf(mem, s_blocks)]_vars

\* C16 witness: a thread that holds a slice and caches another can take the
\* fast path while the other thread is inside defrag's critical section
\* with two elements on a global list.
C16_Witness ==
    \E t, u \in Threads :
        /\ t # u /\ pc[t] = "idle" /\ held[t] # {}
        /\ \E c \in Sizes : s_tp[t][c] # NULL
        /\ pc[u] = "defrag_cs" /\ s_mutex = u
        /\ \E c \in Sizes : s_pool[c].m_size >= 2

\* C17: before cleanup, every step of the two threads either leaves the
\* block chain as it is or puts one block, the one malloc has just
\* returned and that was not in the chain, at its head; nothing is passed
\* to free; so the value memoryAllocatedInBlocks computes from the chain
\* never decreases and is the number of blocks acquired so far times
\* eBlockSize.
C17_BlockChainAppendOnly ==
    [][phase' = "run" =>
        LET old == BlockChainOf(mem, s_blocks)
            new == BlockChainOf(mem', s_blocks')
        IN /\ \/ new = old /\ malloced' = malloced
              \/ /\ new = <<s_blocks'>> \o old
                 /\ s_blocks' \notin Range(old)
                 /\ malloced' = Append(malloced, s_blocks')
           /\ freed' = <<>>
           /\ Len(new) * eBlockSize >= Len(old) * eBlockSize
           /\ Len(new) * eBlockSize = Len(malloced') * eBlockSize
           /\ NoDup(new) /\ Range(new) = Range(malloced')]_vars

\* C17 witness: two blocks in the chain, the second at the lower address,
\* while a thread is inside defrag's critical section and the other is
\* between two critical sections of flushPool.
C17_Witness ==
    /\ phase = "run"
    /\ Len(BlockChainOf(mem, s_blocks)) = 2
    /\ malloced[1] > malloced[2]
    /\ \E t, u \in Threads : pc[t] = "defrag_cs" /\ pc[u] = "flush_next"

\* C19: after a cleanup() called when all clients had stopped and had given
\* back every slice, to the global pool or to some thread's local list,
\* every block obtained from malloc has been passed to free exactly once.
C19_TeardownFreesAll ==
    (phase \in {"cleaned", "asserted"} /\ \A t \in Threads : held[t] = {})
    => /\ Len(freed) = Len(malloced)
       /\ Range(freed) = Range(malloced)
       /\ NoDup(freed)

\* the blocks that were sliced for size class s
BlocksOf(s) == {b \in Slots : <<BlockBase(b), s>> \in carved}
InUse(s) == SumOver(Threads, [t \in Threads |->
                Cardinality({e \in held[t] : e[2] = s})])
InLocalLists(s) == SumOver(Threads, [t \in Threads |-> Len(LocalList(t, s))])

\* C20: whenever no thread is inside an operation (and cleanup has not
\* run), for every size class s the slices on the global list, on the
\* local lists of all threads and in use by callers are together
\* slicesPerBlock(s) times the number of blocks acquired for s.
C20_SliceCountConservation ==
    Quiescent =>
        \A s \in Sizes :
            Len(GlobalList(s)) + InLocalLists(s) + InUse(s)
                = slicesPerBlock(max(s, eMinBytes)) * Cardinality(BlocksOf(s))

\* C20 witness: two blocks of one size class, with slices of it on the
\* global list, on a local list and in use at the same time.
C20_Witness ==
    /\ Quiescent
    /\ \E s \in Sizes :
        /\ Cardinality(BlocksOf(s)) = 2
        /\ Len(GlobalList(s)) >= 1
        /\ InLocalLists(s) >= 1
        /\ InUse(s) >= 1
        /\ \E t \in Threads : s_tp[t][s] # NULL /\ held[t] = {}

====
